---- MODULE Spec2Model ----
(* Model of SingleWindowApp::run_with (src/src/swa.rs): the event-loop      *)
(* closure that renders and dispatches one event per invocation, and the    *)
(* background thread that injects ViewUpdate messages through the           *)
(* event-loop proxy.                                                        *)
EXTENDS Integers, Sequences, FiniteSets, TLC

\* ---------------------------------------------------------------- bounds
MaxNative == 2      \* events the platform puts on the event stream
MaxSends == 2       \* update_view calls made by manage_state
MaxTicks == 2       \* frame intervals the clock advances over

\* Duration::from_nanos(16_666_667)
FrameInterval == 16666667

\* ------------------------------------------------------- the input domain
Keys == {"A"}
Buttons == {"Left"}
Modifiers == {"SHIFT"}
ElementState == {"Pressed", "Released"}
\* physical sizes <<width, height>>, physical positions <<x, y>> and scale
\* factors the platform reports
PhysicalSizes == {<<2, 3>>}
PhysicalPositions == {<<3, 4>>}
Scales == {1, 2}

\* glutin::event::Event as consumed by the closure: window events, the
\* user event carrying a ViewUpdate, and every other event of the driver.
WindowEvents ==
    {<<"CloseRequested">>, <<"Destroyed">>, <<"OtherWindowEvent">>}
    \cup {<<"KeyboardInput", k, s>> : k \in Keys \cup {"None"}, s \in ElementState}
    \cup {<<"Focused", b>> : b \in BOOLEAN}
    \cup {<<"Resized", size>> : size \in PhysicalSizes}
    \cup {<<"CursorMoved", pos>> : pos \in PhysicalPositions}
    \cup {<<"ModifiersChanged", m>> : m \in Modifiers}
    \cup {<<"MouseInput", s, b>> : s \in ElementState, b \in Buttons}
    \cup {<<"ScaleFactorChanged", f>> : f \in Scales}

NativeEvents == WindowEvents \cup {<<"OtherEvent">>}

\* the native events of the runs that follow the clock: the two that end the
\* loop, one that dispatches and one the closure only prints
CadenceEvents ==
    {<<"CloseRequested">>, <<"Destroyed">>,
     <<"KeyboardInput", "A", "Pressed">>, <<"OtherEvent">>}

UserEvent(m) == <<"UserEvent", m>>

LoopDestroyedEvent == <<"LoopDestroyed">>

VARIABLES
    queue,                  \* the event stream: native and user events, FIFO
    consumed,               \* events handed to the closure so far, in order
    calls,                  \* client callbacks invoked: <<iteration, name, arg>>
    scale_factor,           \* let mut scale_factor
    starting_scale_factor,  \* GLContext.starting_scale_factor
    control_flow,           \* the driver's ControlFlow
    loop_alive,             \* the event loop (receiver of the proxy) exists
    pc,                     \* background thread: "idle", "sending", "crashed",
                            \* "panicked"
    sent,                   \* number of update_view calls begun; the message id
    results,                \* AppState returned by each update_view: <<m, r>>
    nativeCount,            \* native events enqueued so far
    terminations,           \* times the loop was shut down
    now,                    \* std::time::Instant::now(), in nanoseconds
    next_frame_time,        \* let next_frame_time, of the last iteration
    closure_flow,           \* *control_flow as the closure last left it
    behind_close            \* messages accepted while a close event was pending

vars == <<queue, consumed, calls, scale_factor, starting_scale_factor,
          control_flow, loop_alive, pc, sent, results, nativeCount,
          terminations, now, next_frame_time, closure_flow,
          behind_close>>

\* ------------------------------------------------ physical -> logical
RECURSIVE Gcd(_, _)
Gcd(a, b) == IF b = 0 THEN a ELSE Gcd(b, a % b)

\* p / sf as a fraction in lowest terms <<numerator, denominator>>
Quot(p, sf) == LET g == Gcd(p, sf) IN <<p \div g, sf \div g>>

\* LogicalSize::from_physical / LogicalPosition::from_physical: both
\* components divided by the scale factor
from_physical(phys, sf) == <<Quot(phys[1], sf), Quot(phys[2], sf)>>

\* ------------------------------------------------ the arms of the match
KeyboardInputArm_once(key, state) ==
    IF key # "None"
    THEN IF state = "Pressed" THEN <<<<"press_key", key>>>>
                              ELSE <<<<"release_key", key>>>>
    ELSE <<>>

KeyboardInputArm_noCheck(key, state) ==
    (IF state = "Pressed" THEN <<<<"press_key", key>>>>
                          ELSE <<<<"release_key", key>>>>)
    \o <<<<"press_key", key>>>>

KeyboardInputArm(key, state) ==
    IF key # "None"
    THEN (IF state = "Pressed" THEN <<<<"press_key", key>>>>
                               ELSE <<<<"release_key", key>>>>)
         \o <<<<"press_key", key>>>>
    ELSE <<>>

FocusedArm(b) == <<<<"set_focus", b>>>>

ResizedArm_starting(size, sf) ==
    <<<<"resize", from_physical(size, starting_scale_factor)>>>>

ResizedArm(size, sf) == <<<<"resize", from_physical(size, sf)>>>>

CursorMovedArm(pos, sf) == <<<<"move_cursor", from_physical(pos, sf)>>>>

ModifiersChangedArm(m) == <<<<"change_modifiers", m>>>>

MouseInputArm_swapped(state, button) ==
    IF state = "Pressed" THEN <<<<"release_mouse", button>>>>
                         ELSE <<<<"press_mouse", button>>>>

MouseInputArm(state, button) ==
    IF state = "Pressed" THEN <<<<"press_mouse", button>>>>
                         ELSE <<<<"release_mouse", button>>>>

\* the new value of scale_factor
ScaleFactorChangedArm_ignore(sf, new_scale_factor) == sf

ScaleFactorChangedArm(sf, new_scale_factor) == new_scale_factor

\* other_window_event and other_glutin_event: println! only.  The user
\* event (the relayed ViewUpdate) is matched by other_glutin_event.
other_window_event(event) == <<>>

other_glutin_event(event) == <<>>

\* the callbacks of match event { ... }, in order, as <<name, arg>>
MatchEvent(event, sf) ==
    CASE event[1] = "CloseRequested" -> <<>>
      [] event[1] = "Destroyed" -> <<>>
      [] event[1] = "KeyboardInput" -> KeyboardInputArm(event[2], event[3])
      [] event[1] = "Focused" -> FocusedArm(event[2])
      [] event[1] = "Resized" -> ResizedArm(event[2], sf)
      [] event[1] = "CursorMoved" -> CursorMovedArm(event[2], sf)
      [] event[1] = "ModifiersChanged" -> ModifiersChangedArm(event[2])
      [] event[1] = "MouseInput" -> MouseInputArm(event[2], event[3])
      [] event[1] = "ScaleFactorChanged" -> <<>>
      [] event[1] = "OtherWindowEvent" -> other_window_event(event)
      [] OTHER -> other_glutin_event(event)

\* scale_factor after the closure has run on event
MatchScale(event, sf) ==
    IF event[1] = "ScaleFactorChanged"
    THEN ScaleFactorChangedArm(sf, event[2])
    ELSE sf

\* *control_flow as the closure leaves it
MatchControlFlow(event) ==
    IF event[1] \in {"CloseRequested", "Destroyed"} THEN "Exit" ELSE "WaitUntil"

\* let next_frame_time = Instant::now() + Duration::from_nanos(16_666_667)
NextFrameTime_carried(t, previous) == previous + FrameInterval

NextFrameTime(t, previous) == t + FrameInterval

Tag(it, cs) == [i \in 1..Len(cs) |-> <<it, cs[i][1], cs[i][2]>>]

\* one invocation of the closure, as the it-th iteration: render first,
\* then the event's arm
ClosureCalls_renderLast(event, sf, it) ==
    Tag(it, MatchEvent(event, sf) \o <<<<"render", "display">>>>)

ClosureCalls(event, sf, it) ==
    Tag(it, <<<<"render", "display">>>> \o MatchEvent(event, sf))

\* ControlFlow::Exit is sticky in the driver: once set, what the closure
\* writes is discarded
StickyControlFlow(cf, written) == IF cf = "Exit" THEN "Exit" ELSE written

\* ------------------------------------------------ the proxy
\* EventLoopProxy::send_event: Ok while the loop exists, Err(EventLoopClosed)
\* after; the stream is unbounded
send_event_bounded(alive, q) == IF alive /\ Len(q) < 1 THEN "Ok" ELSE "Err"

send_event(alive, q) == IF alive THEN "Ok" ELSE "Err"

\* the update_view closure's match on the result of send_event
update_view_unwrap(r) == IF r = "Ok" THEN "On" ELSE "Panic"

update_view_swapped(r) == IF r = "Ok" THEN "Off" ELSE "On"

update_view(r) == IF r = "Ok" THEN "On" ELSE "Off"

\* ------------------------------------------------ the state machine
Init ==
    /\ queue = <<>>
    /\ consumed = <<>>
    /\ calls = <<>>
    /\ starting_scale_factor \in Scales
    /\ scale_factor = starting_scale_factor
    /\ control_flow = "Poll"
    /\ loop_alive = TRUE
    /\ pc = "idle"
    /\ sent = 0
    /\ results = <<>>
    /\ nativeCount = 0
    /\ terminations = 0
    /\ now = 0
    /\ next_frame_time = 0
    /\ closure_flow = "Poll"
    /\ behind_close = {}

\* the platform puts an event on the loop's event stream
NativeEvent(e) ==
    /\ loop_alive
    /\ nativeCount < MaxNative
    /\ nativeCount' = nativeCount + 1
    /\ queue' = Append(queue, e)
    /\ UNCHANGED <<consumed, calls, scale_factor, starting_scale_factor,
                   control_flow, loop_alive, pc, sent, results, terminations,
                   now, next_frame_time, closure_flow, behind_close>>

BeginSend_restarted ==
    /\ pc \in {"idle", "panicked"}
    /\ sent < MaxSends
    /\ sent' = sent + 1
    /\ pc' = "sending"
    /\ UNCHANGED <<queue, consumed, calls, scale_factor, starting_scale_factor,
                   control_flow, loop_alive, results, nativeCount,
                   terminations, now, next_frame_time, closure_flow,
                   behind_close>>

\* manage_state calls update_view with its next message
BeginSend ==
    /\ pc = "idle"
    /\ sent < MaxSends
    /\ sent' = sent + 1
    /\ pc' = "sending"
    /\ UNCHANGED <<queue, consumed, calls, scale_factor, starting_scale_factor,
                   control_flow, loop_alive, results, nativeCount,
                   terminations, now, next_frame_time, closure_flow,
                   behind_close>>

CompleteSend_blocking ==
    /\ pc = "sending"
    /\ Len(queue) < 1
    /\ LET r == send_event(loop_alive, queue)
           s == update_view(r)
       IN /\ queue' = IF r = "Ok" THEN Append(queue, UserEvent(sent)) ELSE queue
          /\ results' = Append(results, <<sent, s>>)
          /\ pc' = IF s \in {"On", "Off"} THEN "idle" ELSE "crashed"
          /\ behind_close' =
                IF r = "Ok" /\ \E i \in 1..Len(queue) :
                                  queue[i][1] \in {"CloseRequested", "Destroyed"}
                THEN behind_close \cup {sent} ELSE behind_close
    /\ UNCHANGED <<consumed, calls, scale_factor, starting_scale_factor,
                   control_flow, loop_alive, sent, nativeCount, terminations,
                   now, next_frame_time, closure_flow>>

CompleteSend_direct ==
    /\ pc = "sending"
    /\ LET r == send_event(loop_alive, queue)
           s == update_view(r)
       IN /\ queue' = IF r = "Ok" THEN Append(queue, UserEvent(sent)) ELSE queue
          /\ results' = Append(results, <<sent, s>>)
          /\ pc' = IF s \in {"On", "Off"} THEN "idle" ELSE "crashed"
          /\ behind_close' =
                IF r = "Ok" /\ \E i \in 1..Len(queue) :
                                  queue[i][1] \in {"CloseRequested", "Destroyed"}
                THEN behind_close \cup {sent} ELSE behind_close
    /\ calls' = Append(calls, <<Len(consumed), "receive", sent>>)
    /\ UNCHANGED <<consumed, scale_factor, starting_scale_factor,
                   control_flow, loop_alive, sent, nativeCount, terminations,
                   now, next_frame_time, closure_flow>>

\* send_event takes effect and update_view returns the AppState
CompleteSend ==
    /\ pc = "sending"
    /\ LET r == send_event(loop_alive, queue)
           s == update_view(r)
       IN /\ queue' = IF r = "Ok" THEN Append(queue, UserEvent(sent)) ELSE queue
          /\ results' = Append(results, <<sent, s>>)
          /\ pc' = IF s \in {"On", "Off"} THEN "idle" ELSE "crashed"
          /\ behind_close' =
                IF r = "Ok" /\ \E i \in 1..Len(queue) :
                                  queue[i][1] \in {"CloseRequested", "Destroyed"}
                THEN behind_close \cup {sent} ELSE behind_close
    /\ UNCHANGED <<consumed, calls, scale_factor, starting_scale_factor,
                   control_flow, loop_alive, sent, nativeCount, terminations,
                   now, next_frame_time, closure_flow>>

\* the closure run on one event
RunClosure(event) ==
    /\ consumed' = Append(consumed, event)
    /\ calls' = calls \o ClosureCalls(event, scale_factor, Len(consumed) + 1)
    /\ scale_factor' = MatchScale(event, scale_factor)
    /\ next_frame_time' = NextFrameTime(now, next_frame_time)
    /\ closure_flow' = MatchControlFlow(event)
    /\ control_flow' = StickyControlFlow(control_flow, MatchControlFlow(event))

Iterate_afterDeadline ==
    /\ loop_alive
    /\ queue # <<>>
    /\ closure_flow = "WaitUntil" => now >= next_frame_time
    /\ RunClosure(Head(queue))
    /\ queue' = Tail(queue)
    /\ UNCHANGED <<starting_scale_factor, loop_alive, pc, sent, results,
                   nativeCount, terminations, now, behind_close>>

\* the driver takes the next event of the stream and runs the closure on
\* it.  Events that were already pending when Exit was requested may still
\* be delivered before the loop shuts down.
Iterate ==
    /\ loop_alive
    /\ queue # <<>>
    /\ RunClosure(Head(queue))
    /\ queue' = Tail(queue)
    /\ UNCHANGED <<starting_scale_factor, loop_alive, pc, sent, results,
                   nativeCount, terminations, now, behind_close>>

LoopDestroyed_keepsRunning ==
    /\ loop_alive
    /\ control_flow = "Exit"
    /\ RunClosure(LoopDestroyedEvent)
    /\ loop_alive' = TRUE
    /\ terminations' = terminations + 1
    /\ UNCHANGED <<queue, starting_scale_factor, pc, sent, results,
                   nativeCount, now, behind_close>>

\* after Exit the driver runs the closure one last time on LoopDestroyed
\* and the loop is gone; what is left on the stream is never consumed
LoopDestroyed ==
    /\ loop_alive
    /\ control_flow = "Exit"
    /\ RunClosure(LoopDestroyedEvent)
    /\ loop_alive' = FALSE
    /\ terminations' = terminations + 1
    /\ UNCHANGED <<queue, starting_scale_factor, pc, sent, results,
                   nativeCount, now, behind_close>>

Next ==
    \/ \E e \in NativeEvents : NativeEvent(e)
    \/ BeginSend
    \/ CompleteSend
    \/ Iterate
    \/ LoopDestroyed

Spec == Init /\ [][Next]_vars

\* the clock advances by one frame interval while the loop exists
Tick ==
    /\ loop_alive
    /\ now < MaxTicks * FrameInterval
    /\ now' = now + FrameInterval
    /\ UNCHANGED <<queue, consumed, calls, scale_factor, starting_scale_factor,
                   control_flow, loop_alive, pc, sent, results, nativeCount,
                   terminations, next_frame_time, closure_flow, behind_close>>

\* the client's manage_state panics between two sends: the spawned thread
\* unwinds and nothing catches or respawns it
Panic ==
    /\ pc = "idle"
    /\ pc' = "panicked"
    /\ UNCHANGED <<queue, consumed, calls, scale_factor, starting_scale_factor,
                   control_flow, loop_alive, sent, results, nativeCount,
                   terminations, now, next_frame_time, closure_flow,
                   behind_close>>

\* the same loop and background thread, with the clock running and a
\* client that may panic
CadenceNext ==
    \/ \E e \in CadenceEvents : NativeEvent(e)
    \/ BeginSend
    \/ CompleteSend
    \/ Iterate
    \/ LoopDestroyed
    \/ Tick
    \/ Panic

CadenceSpec == Init /\ [][CadenceNext]_vars

\* the native events of the runs that follow a waiting loop: one that ends
\* the loop and one that only wakes it
WaitEvents == {<<"CloseRequested">>, <<"OtherEvent">>}

WaitNext ==
    \/ \E e \in WaitEvents : NativeEvent(e)
    \/ BeginSend
    \/ CompleteSend
    \/ Iterate
    \/ LoopDestroyed
    \/ Tick

\* the driver keeps handing pending events to the closure
WaitSpec == Init /\ [][WaitNext]_vars /\ WF_vars(Iterate)

\* ------------------------------------------------ reading the history
Indices(seq) == 1..Len(seq)

Last(seq) == seq[Len(seq)]

\* the semantic callbacks (everything but render) of iteration i, in
\* order, as <<name, arg>>
SemanticCalls(i) ==
    LET cs == SelectSeq(calls, LAMBDA c : c[1] = i /\ c[2] # "render")
    IN [n \in 1..Len(cs) |-> <<cs[n][2], cs[n][3]>>]

\* the arguments of the receive invocations, in order
ReceiveArgs ==
    LET cs == SelectSeq(calls, LAMBDA c : c[2] = "receive")
    IN [n \in 1..Len(cs) |-> cs[n][3]]

\* the relayed messages the loop has consumed, in order
ConsumedMessages ==
    LET es == SelectSeq(consumed, LAMBDA e : e[1] = "UserEvent")
    IN [n \in 1..Len(es) |-> es[n][2]]

QueuedMessages ==
    LET es == SelectSeq(queue, LAMBDA e : e[1] = "UserEvent")
    IN [n \in 1..Len(es) |-> es[n][2]]

IsCloseEvent(e) == e[1] \in {"CloseRequested", "Destroyed"}

\* the loop has run its last iteration and is gone
LoopExited == consumed # <<>> /\ Last(consumed) = LoopDestroyedEvent

\* the scale factor in force when iteration i starts, read off the events
\* consumed before it
FactorAt(i) ==
    LET before == {j \in 1..(i - 1) : consumed[j][1] = "ScaleFactorChanged"}
    IN IF before = {} THEN starting_scale_factor
       ELSE consumed[CHOOSE j \in before : \A k \in before : k <= j][2]

IsPrefix(s, t) == Len(s) <= Len(t) /\ \A i \in Indices(s) : s[i] = t[i]

\* ------------------------------------------------ the claims

\* C1: when M1 and then M2 were sent before any native event and the loop
\* has consumed both, receive has been invoked with M1 and then M2, each
\* exactly once.
C1_ReceiveM1ThenM2 ==
    (/\ Len(consumed) >= 2
     /\ consumed[1] = UserEvent(1)
     /\ consumed[2] = UserEvent(2))
    => (/\ Len(ReceiveArgs) >= 2
        /\ ReceiveArgs[1] = 1
        /\ ReceiveArgs[2] = 2
        /\ \A n \in Indices(ReceiveArgs) : n > 2 => ReceiveArgs[n] \notin {1, 2})

\* C2: a send returns On exactly when its message was put on the event
\* stream and Off exactly when the loop has exited; a send that returns Off
\* enqueues nothing.
C2_SendResult ==
    [][(pc = "sending" /\ pc' # "sending") =>
        /\ Len(results') = Len(results) + 1
        /\ Last(results')[1] = sent
        /\ Last(results')[2] \in {"On", "Off"}
        /\ (Last(results')[2] = "On") <=> (queue' = Append(queue, UserEvent(sent)))
        /\ (Last(results')[2] = "Off") <=> LoopExited
        /\ (Last(results')[2] = "Off") => (queue' = queue)]_vars

\* a send answered On before the loop's first iteration, and a later one
\* answered Off
C2_Witness ==
    /\ Len(results) = 2
    /\ results[1][2] = "On"
    /\ results[2][2] = "Off"

\* C3: no send returns On after an earlier send returned Off.
C3_OffIsPermanent ==
    \A i \in Indices(results) : \A j \in Indices(results) :
        (i < j /\ results[i][2] = "Off") => results[j][2] = "Off"

\* the background task ignored Off and sent again
C3_Witness ==
    /\ Len(results) >= 2
    /\ results[1][2] = "Off"
    /\ Last(results)[2] = "Off"

\* C4: the loop consumes the relayed messages in the order they were sent,
\* and receive observes exactly the consumed messages in that order.
C4_ReceiveInSendOrder ==
    /\ \A n \in Indices(ConsumedMessages) : \A k \in Indices(ConsumedMessages) :
           n < k => ConsumedMessages[n] < ConsumedMessages[k]
    /\ ReceiveArgs = ConsumedMessages

\* C5: a KeyboardInput with a key code and state Released dispatches
\* release_key with that key, once, and nothing else.
C5_ReleasedKey ==
    \A i \in Indices(consumed) :
        (/\ consumed[i][1] = "KeyboardInput"
         /\ consumed[i][2] # "None"
         /\ consumed[i][3] = "Released")
        => SemanticCalls(i) = <<<<"release_key", consumed[i][2]>>>>

\* C6: a KeyboardInput with a key code and state Pressed dispatches
\* press_key with that key exactly twice, and never release_key.
C6_PressedKeyTwice ==
    \A i \in Indices(consumed) :
        (/\ consumed[i][1] = "KeyboardInput"
         /\ consumed[i][2] # "None"
         /\ consumed[i][3] = "Pressed")
        => SemanticCalls(i) = <<<<"press_key", consumed[i][2]>>,
                                <<"press_key", consumed[i][2]>>>>

C6_Witness ==
    \E i \in Indices(consumed) :
        /\ consumed[i][1] = "KeyboardInput"
        /\ consumed[i][2] # "None"
        /\ consumed[i][3] = "Pressed"
        /\ Len(SemanticCalls(i)) = 2

\* C7: once a CloseRequested or Destroyed event has been processed, no
\* render and no semantic callback is invoked in any later iteration.
C7_NothingAfterClose ==
    \A i \in Indices(consumed) :
        IsCloseEvent(consumed[i]) =>
            \A n \in Indices(calls) : calls[n][1] <= i

\* C8: every iteration invokes render exactly once, before any semantic
\* callback of that iteration; callbacks belong to iterations that happened.
C8_RenderOncePerIteration ==
    /\ \A i \in Indices(consumed) :
        LET cs == SelectSeq(calls, LAMBDA c : c[1] = i)
        IN /\ Len(cs) >= 1
           /\ cs[1][2] = "render"
           /\ \A n \in Indices(cs) : n > 1 => cs[n][2] # "render"
    /\ \A n \in Indices(calls) :
        /\ calls[n][1] \in Indices(consumed)
        /\ n > 1 => calls[n - 1][1] <= calls[n][1]

\* an iteration that dispatched a semantic callback, and one that did not
C8_Witness ==
    /\ \E i \in Indices(consumed) : SemanticCalls(i) # <<>>
    /\ \E i \in Indices(consumed) : SemanticCalls(i) = <<>>

C10_Converted ==
    \A n \in Indices(calls) :
        /\ calls[n][2] = "resize" =>
            /\ consumed[calls[n][1]][1] = "Resized"
            /\ calls[n][3] = from_physical(consumed[calls[n][1]][2],
                                           FactorAt(calls[n][1]))
        /\ calls[n][2] = "move_cursor" =>
            /\ consumed[calls[n][1]][1] = "CursorMoved"
            /\ calls[n][3] = from_physical(consumed[calls[n][1]][2],
                                           FactorAt(calls[n][1]))

C10_ScaleFactorConversion ==
    /\ []C10_Converted
    /\ [][/\ IsPrefix(calls, calls')
          /\ Len(SelectSeq(calls', LAMBDA c : c[2] \in {"resize", "move_cursor"}))
             <= Len(SelectSeq(calls, LAMBDA c : c[2] \in {"resize", "move_cursor"}))
                + (IF Len(consumed') > Len(consumed)
                      /\ Last(consumed')[1] \in {"Resized", "CursorMoved"}
                   THEN 1 ELSE 0)]_vars

\* a value dispatched under a changed factor, and a value dispatched before
\* a change of the factor
C10_Witness ==
    \E n \in Indices(calls) :
        /\ calls[n][2] \in {"resize", "move_cursor"}
        /\ \/ FactorAt(calls[n][1]) # starting_scale_factor
           \/ scale_factor # FactorAt(calls[n][1])

\* the step hands one more event to the closure
Consumes == Len(consumed') = Len(consumed) + 1

\* every message that was ever put on the event stream, in stream order
StreamMessages == ConsumedMessages \o QueuedMessages

\* C11: only the processing of a ScaleFactorChanged event changes the
\* scale factor; it sets it to the event's factor and invokes nothing but
\* render.  No other event and no step of the background task changes it.
C11_OnlyScaleFactorChanged ==
    [][/\ (scale_factor' # scale_factor) =>
            (Consumes /\ Last(consumed')[1] = "ScaleFactorChanged")
       /\ (Consumes /\ Last(consumed')[1] = "ScaleFactorChanged") =>
            /\ scale_factor' = Last(consumed')[2]
            /\ calls' = Append(calls, <<Len(consumed'), "render", "display">>)
       /\ (pc' # pc \/ sent' # sent \/ results' # results) =>
            scale_factor' = scale_factor]_vars

\* a ScaleFactorChanged with a factor other than the starting one was
\* processed
C11_Witness ==
    /\ scale_factor # starting_scale_factor
    /\ consumed # <<>>
    /\ Last(consumed)[1] = "ScaleFactorChanged"

\* the one callback section 4.1 gives for event e processed at iteration i
MappedCall(e, i) ==
    CASE e[1] = "Focused" -> <<"set_focus", e[2]>>
      [] e[1] = "ModifiersChanged" -> <<"change_modifiers", e[2]>>
      [] e[1] = "MouseInput" ->
            <<IF e[2] = "Pressed" THEN "press_mouse" ELSE "release_mouse", e[3]>>
      [] e[1] = "Resized" -> <<"resize", from_physical(e[2], FactorAt(i))>>
      [] e[1] = "CursorMoved" ->
            <<"move_cursor", from_physical(e[2], FactorAt(i))>>

\* C12: each Focused, ModifiersChanged, MouseInput, Resized and CursorMoved
\* event produces exactly one invocation of its callback with the event's
\* value, and the callbacks are logged in the order the events are consumed.
C12_OneCallbackPerEvent ==
    /\ \A i \in Indices(consumed) :
        consumed[i][1] \in {"Focused", "ModifiersChanged", "MouseInput",
                            "Resized", "CursorMoved"}
        => SemanticCalls(i) = <<MappedCall(consumed[i], i)>>
    /\ \A n \in Indices(calls) : n > 1 => calls[n - 1][1] <= calls[n][1]

\* a mouse button event followed by another event of the five kinds
C12_Witness ==
    \E i \in Indices(consumed) : \E j \in Indices(consumed) :
        /\ i < j
        /\ consumed[i][1] = "MouseInput"
        /\ consumed[j][1] \in {"Focused", "ModifiersChanged", "MouseInput",
                               "Resized", "CursorMoved"}

\* a KeyboardInput without key code, or an event the mapping table does not
\* list
IsUnmapped(e) ==
    \/ e[1] \in {"OtherWindowEvent", "OtherEvent"}
    \/ (e[1] = "KeyboardInput" /\ e[2] = "None")

\* C13: processing a KeyboardInput without key code or an unlisted event
\* invokes no semantic callback and changes neither the scale factor nor
\* whether termination was requested nor whether the loop exists.
C13_UnmappedEventsIgnored ==
    [][(Consumes /\ IsUnmapped(Last(consumed'))) =>
        /\ calls' = Append(calls, <<Len(consumed'), "render", "display">>)
        /\ scale_factor' = scale_factor
        /\ (control_flow' = "Exit") <=> (control_flow = "Exit")
        /\ loop_alive' = loop_alive]_vars

C13_Witness ==
    /\ \E i \in Indices(consumed) :
        consumed[i][1] = "KeyboardInput" /\ consumed[i][2] = "None"
    /\ \E i \in Indices(consumed) :
        consumed[i][1] \in {"OtherWindowEvent", "OtherEvent"}

\* C14: a send in progress can always complete at once, whatever the loop
\* is doing and however many events are queued.
C14_SendNeverBlocks == (pc = "sending") => ENABLED CompleteSend

\* a send in progress with two events already queued, Exit requested and
\* the loop not yet gone
C14_Witness ==
    /\ pc = "sending"
    /\ Len(queue) >= 2
    /\ control_flow = "Exit"
    /\ loop_alive

\* C15: a step of the main loop leaves the background task's state alone,
\* and a step of the background task changes nothing of the main loop or
\* the client but, at most, appends its message to the event stream.
C15_OnlyTheQueueIsShared ==
    [][/\ (consumed' # consumed \/ calls' # calls) =>
            UNCHANGED <<pc, sent, results>>
       /\ (pc' # pc \/ sent' # sent \/ results' # results) =>
            /\ UNCHANGED <<consumed, calls, scale_factor, control_flow,
                           closure_flow, next_frame_time, loop_alive>>
            /\ (queue' = queue \/ queue' = Append(queue, UserEvent(sent)))]_vars

\* both threads have acted: a message was accepted and the loop dispatched
C15_Witness ==
    /\ \E n \in Indices(results) : results[n][2] = "On"
    /\ \E i \in Indices(consumed) : SemanticCalls(i) # <<>>

\* C16: every iteration leaves *control_flow as Exit when its event was
\* CloseRequested or Destroyed and otherwise as WaitUntil(the time read in
\* this iteration + the frame interval), never as Poll or Wait.
C16_ControlFlowPerIteration ==
    [][Consumes =>
        /\ closure_flow' \in {"Exit", "WaitUntil"}
        /\ (closure_flow' = "Exit") <=> IsCloseEvent(Last(consumed'))
        /\ next_frame_time' = now + FrameInterval]_vars

\* a second iteration that ran later than the first and waits
C16_Witness ==
    /\ Len(consumed) >= 2
    /\ now > 0
    /\ closure_flow = "WaitUntil"
    /\ next_frame_time = now + FrameInterval
    /\ loop_alive

\* C17: while the loop exists a queued event can be taken at once, also
\* before the scheduled frame time, and every message on the stream is
\* eventually consumed unless the loop is gone.
C17_WaitIsInterruptible ==
    /\ []((loop_alive /\ queue # <<>>) => ENABLED Iterate)
    /\ \A m \in 1..MaxSends :
        (\E k \in Indices(QueuedMessages) : QueuedMessages[k] = m)
        ~> (\/ \E k \in Indices(ConsumedMessages) : ConsumedMessages[k] = m
            \/ ~loop_alive)

\* a message enqueued while the loop waits for a frame time still ahead
C17_Witness ==
    /\ loop_alive
    /\ consumed # <<>>
    /\ control_flow = "WaitUntil"
    /\ now < next_frame_time
    /\ QueuedMessages # <<>>

\* C18: once the state-management loop has panicked the thread stays dead:
\* no further send begins or completes and no message is added to the
\* stream; the panic itself changes nothing of the main loop, which can
\* still take every pending event.
C18_PanicStopsOnlyTheThread ==
    /\ [][(pc = "panicked") =>
            /\ pc' = "panicked"
            /\ UNCHANGED <<sent, results>>
            /\ StreamMessages' = StreamMessages]_vars
    /\ [][(pc # "panicked" /\ pc' = "panicked") =>
            UNCHANGED <<queue, consumed, calls, scale_factor, control_flow,
                        closure_flow, loop_alive>>]_vars
    /\ []((pc = "panicked" /\ loop_alive /\ queue # <<>>) => ENABLED Iterate)

\* the thread panicked after a send and the loop is still dispatching
C18_Witness ==
    /\ pc = "panicked"
    /\ results # <<>>
    /\ loop_alive
    /\ control_flow = "WaitUntil"
    /\ \E i \in Indices(consumed) : consumed[i][1] = "KeyboardInput"

\* C19: On only says the message was enqueued.  Once the loop is gone
\* nothing is consumed any more, so a message accepted behind a pending
\* close event and still queued at shutdown is never handled.
C19_NothingConsumedAfterExit ==
    [][LoopExited => UNCHANGED <<consumed, calls, queue>>]_vars

\* a send returned On with a close event ahead of it in the queue, the
\* loop has exited and the message was not consumed
C19_Witness ==
    /\ LoopExited
    /\ \E m \in behind_close :
        /\ results[m] = <<m, "On">>
        /\ \E k \in Indices(QueuedMessages) : QueuedMessages[k] = m
        /\ \A k \in Indices(ConsumedMessages) : ConsumedMessages[k] # m

====
